---- MODULE Spec2Model ----
(***************************************************************************)
(* The calculator site's two Flask entry points, src/main.py (standalone,  *)
(* started with app.run) and src/api/index.py (WSGI module for serverless  *)
(* hosting), as one state machine: the process environment and the startup *)
(* configuration read from it, the files on disk, the template cache the   *)
(* application keeps between requests, and the last response produced.     *)
(*                                                                         *)
(* Strings that the code inspects character by character (environment      *)
(* values) are sequences of one-character strings; URL paths and file      *)
(* paths are sequences of segments.  A request is handled in one step:     *)
(* the handlers share nothing but the template cache, which is only ever   *)
(* read and extended inside render_template.                               *)
(***************************************************************************)
EXTENDS Integers, Sequences, FiniteSets, TLC

VARIABLES variant, env, proc, host, port, debug, files, cache, resp, fsChanged

vars == <<variant, env, proc, host, port, debug, files, cache, resp, fsChanged>>

\* Longest filename, in segments, requested below /static/.
MaxSegs == 3

\* Path segments a client puts in a static filename.
Segs == {"..", ".", "static", "style", "app.js", "main.py"}

-----------------------------------------------------------------------------
(* Strings of the process environment *)

Unset == <<"<unset>">>

Str_8080 == <<"8", "0", "8", "0">>
Str_True == <<"T", "r", "u", "e">>

PortValues ==
    { Unset, <<>>, Str_8080, <<"8", "0">>, <<"0", "8", "0">>, <<"+", "8", "0">>,
      <<"0">>, <<"-", "1">>, <<"7", "0", "0", "0", "0">>, <<"a", "b", "c">>,
      <<"8", "o">> }

DebugValues ==
    { Unset, <<>>, <<"t", "r", "u", "e">>, Str_True, <<"T", "R", "U", "E">>,
      <<"f", "a", "l", "s", "e">>, <<"F", "a", "l", "s", "e">>, <<"1">>,
      <<"y", "e", "s">>, <<"o", "n">>, <<"t", "r", "u">> }

UpperLetters == <<"A", "B", "C", "D", "E", "F", "G", "H", "I", "J", "K", "L", "M",
                  "N", "O", "P", "Q", "R", "S", "T", "U", "V", "W", "X", "Y", "Z">>
LowerLetters == <<"a", "b", "c", "d", "e", "f", "g", "h", "i", "j", "k", "l", "m",
                  "n", "o", "p", "q", "r", "s", "t", "u", "v", "w", "x", "y", "z">>
Digits == <<"0", "1", "2", "3", "4", "5", "6", "7", "8", "9">>

\* str.lower(), one character.
LowerChar(c) ==
    IF \E i \in DOMAIN UpperLetters : UpperLetters[i] = c
    THEN LowerLetters[CHOOSE i \in DOMAIN UpperLetters : UpperLetters[i] = c]
    ELSE c

\* str.lower()
lower(s) == [i \in DOMAIN s |-> LowerChar(s[i])]

IsDigit(c) == \E i \in DOMAIN Digits : Digits[i] = c

DigitVal(c) == (CHOOSE i \in DOMAIN Digits : Digits[i] = c) - 1

RECURSIVE DigitsValue(_, _)
DigitsValue(acc, s) ==
    IF s = <<>> THEN acc ELSE DigitsValue(acc * 10 + DigitVal(Head(s)), Tail(s))

\* int(<str>): an optional sign and at least one decimal digit; anything else
\* raises ValueError.  (No value drawn here carries blanks or underscores.)
int(s) ==
    LET signed == s # <<>> /\ Head(s) \in {"+", "-"}
        body   == IF signed THEN Tail(s) ELSE s
        ok     == body # <<>> /\ \A i \in DOMAIN body : IsDigit(body[i])
    IN  IF ~ok THEN [ok |-> FALSE, value |-> 0]
        ELSE [ok |-> TRUE,
              value |-> IF signed /\ Head(s) = "-" THEN 0 - DigitsValue(0, body)
                                                 ELSE DigitsValue(0, body)]

\* The default of os.environ.get("PORT", 5000).
DefaultPort == 5000

\* Ports a socket can be bound to.
MaxPort == 65535

\* int(os.environ.get("PORT", 5000)): the default is already an integer.
port_of(e) == IF e.PORT = Unset THEN [ok |-> TRUE, value |-> DefaultPort] ELSE int(e.PORT)

\* os.environ.get("FLASK_DEBUG", "False").lower() == "true", with the comparison
\* made on the raw value: the bug the lower() call prevents.
debug_mode_case_sensitive(e) ==
    (IF e.FLASK_DEBUG = Unset THEN <<"F", "a", "l", "s", "e">> ELSE e.FLASK_DEBUG)
        = <<"t", "r", "u", "e">>

\* os.environ.get("FLASK_DEBUG", "False").lower() == "true"
debug_mode(e) ==
    lower(IF e.FLASK_DEBUG = Unset THEN <<"F", "a", "l", "s", "e">> ELSE e.FLASK_DEBUG)
        = <<"t", "r", "u", "e">>

-----------------------------------------------------------------------------
(* The files on disk *)

\* The application root: the directory of main.py, the parent of api/.
ROOT_DIR == <<"app">>

static_dir == ROOT_DIR \o <<"static">>
style_dir == ROOT_DIR \o <<"static", "style">>
template_dir == ROOT_DIR \o <<"templates">>

Templates == {"index.html", "404.html"}

TemplatePath(name) == template_dir \o <<name>>

\* Files that are never removed here: the entry point and a style asset.
FixedFiles == { ROOT_DIR \o <<"main.py">>, style_dir \o <<"app.js">> }

\* Files that come and go while the process runs: the templates and an asset.
Removable == { TemplatePath(t) : t \in Templates } \cup { static_dir \o <<"app.js">> }

\* Path resolution as the operating system does it: ".." steps to the parent,
\* and the parent of the root is the root.
RECURSIVE OsResolveFrom(_, _)
OsResolveFrom(acc, p) ==
    IF p = <<>> THEN acc
    ELSE LET s == Head(p)
         IN  OsResolveFrom(
                 IF s = "." THEN acc
                 ELSE IF s = ".."
                      THEN (IF acc = <<>> THEN acc ELSE SubSeq(acc, 1, Len(acc) - 1))
                      ELSE Append(acc, s),
                 Tail(p))

OsResolve(p) == OsResolveFrom(<<>>, p)

\* os.path.isfile
isfile(fs, p) == OsResolve(p) \in fs

\* The bytes of the file at p: every file has its own content.
FileBytes(p) == <<"file">> \o OsResolve(p)

-----------------------------------------------------------------------------
(* Path handling of the file-serving primitive *)

\* One segment of posixpath.normpath on a relative path: "." is dropped, ".."
\* cancels the segment before it unless there is none or it is itself "..".
NormStep(acc, s) ==
    IF s = "." THEN acc
    ELSE IF s = ".." /\ acc # <<>> /\ acc[Len(acc)] # ".."
         THEN SubSeq(acc, 1, Len(acc) - 1)
         ELSE Append(acc, s)

RECURSIVE NormFrom(_, _)
NormFrom(acc, p) == IF p = <<>> THEN acc ELSE NormFrom(NormStep(acc, Head(p)), Tail(p))

\* posixpath.normpath of a relative path (<<>> stands for ".").
normpath(p) == NormFrom(<<>>, p)

\* What safe_join returns for a filename that leaves the directory.
None == <<"<none>">>

\* safe_join(directory, filename): the normalised filename under the directory,
\* or None when it is ".." or begins with "../".
JoinNormalised(directory, n) ==
    IF n # <<>> /\ n[1] = ".." THEN None ELSE directory \o n

safe_join(directory, filename) == JoinNormalised(directory, normpath(filename))

-----------------------------------------------------------------------------
(* What a handler hands back: a response, or an exception *)

\* ctx is what a handler can see: [variant, debug, files, cache].
Returned(status, body, by, c) ==
    [raised |-> "", status |-> status, body |-> body, by |-> by, exc |-> "", cache |-> c]

Raised(e, c) ==
    [raised |-> e, status |-> 0, body |-> <<>>, by |-> "", exc |-> "", cache |-> c]

\* send_from_directory(directory, filename): NotFound for a filename safe_join
\* refuses and for a path that is no regular file, else the file's bytes.
send_file_at(p, ctx) ==
    IF p = None \/ ~isfile(ctx.files, p)
    THEN Raised("NotFound", ctx.cache)
    ELSE Returned(200, FileBytes(p), "view", ctx.cache)

send_from_directory(directory, filename, ctx) ==
    send_file_at(safe_join(directory, filename), ctx)

\* A template cache that forgets nothing but cannot serve what it holds: a
\* template renders only the first time.
template_available_once(name, ctx) ==
    name \notin ctx.cache /\ TemplatePath(name) \in ctx.files

\* Whether render_template finds the template: with debug off a template that
\* was loaded once is served from the cache without looking at the disk; with
\* debug on (auto reload) a cached template is checked against its file.
template_available(name, ctx) ==
    (~ctx.debug /\ name \in ctx.cache) \/ TemplatePath(name) \in ctx.files

\* render_template(name): the rendered page, or TemplateNotFound.
render_template(name, ctx) ==
    IF template_available(name, ctx)
    THEN Returned(200, <<"template", name>>, "view", ctx.cache \cup {name})
    ELSE Raised("TemplateNotFound", ctx.cache)

-----------------------------------------------------------------------------
(* The view functions and error handlers *)

\* home that answers a missing template with abort(404).
home_abort_404(ctx) ==
    IF template_available("index.html", ctx)
    THEN render_template("index.html", ctx)
    ELSE Raised("NotFound", ctx.cache)

\* home(), both entry points.
home(ctx) == render_template("index.html", ctx)

\* The static view Flask registers for the application's static folder.
send_static_file(filename, ctx) == send_from_directory(static_dir, filename, ctx)

\* serve_static reading from the application root instead of static/.
serve_static_from_root(filename, ctx) == send_from_directory(ROOT_DIR, filename, ctx)

\* serve_static(filename), api/index.py.
serve_static(filename, ctx) == send_from_directory(static_dir, filename, ctx)

\* serve_style reading from static/ instead of static/style/.
serve_style_from_static(filename, ctx) == send_from_directory(static_dir, filename, ctx)

\* serve_style(filename), api/index.py.
serve_style(filename, ctx) == send_from_directory(style_dir, filename, ctx)

\* page_not_found(e) of main.py: the template's failure is not caught.
\* "return <rendered>, 404"
With404(r) == IF r.raised = "" THEN Returned(404, r.body, "page_not_found", r.cache) ELSE r

\* "except: return 'Page Not Found', 404"
ExceptPlainText(r) ==
    IF r.raised = "" THEN r
    ELSE Returned(404, <<"text", "Page Not Found">>, "page_not_found", r.cache)

main_page_not_found(ctx) == With404(render_template("404.html", ctx))

\* page_not_found(e) of api/index.py: any failure falls back to plain text.
index_page_not_found(ctx) == ExceptPlainText(With404(render_template("404.html", ctx)))

page_not_found(ctx) ==
    IF ctx.variant = "main" THEN main_page_not_found(ctx) ELSE index_page_not_found(ctx)

\* internal_error that renders a 500.html page, which no template directory holds.
With500(r) == IF r.raised = "" THEN Returned(500, r.body, "internal_error", r.cache) ELSE r

internal_error_rendering(ctx) == With500(render_template("500.html", ctx))

\* internal_error(e), both entry points.
internal_error(ctx) ==
    Returned(500, <<"text", "Internal Server Error">>, "internal_error", ctx.cache)

-----------------------------------------------------------------------------
(* Routing, in registration order *)

HomeRule == [prefix |-> <<>>, path |-> FALSE, endpoint |-> "home"]

\* "/static/<path:filename>" of the static folder, registered by Flask(...).
StaticRule == [prefix |-> <<"static">>, path |-> TRUE, endpoint |-> "static"]

\* The route table: Flask(...) registers the static folder's route, then each
\* @app.route adds one rule.
url_map(v) ==
    IF v = "main"
    THEN << StaticRule, HomeRule >>
    ELSE << StaticRule, HomeRule,
            [prefix |-> <<"static">>, path |-> TRUE, endpoint |-> "serve_static"],
            [prefix |-> <<"static", "style">>, path |-> TRUE, endpoint |-> "serve_style"] >>

\* A rule matches a URL that starts with its fixed segments and then, for a
\* <path:filename> rule, goes on with at least one more segment.
RuleMatches(rule, url) ==
    /\ Len(url) >= Len(rule.prefix)
    /\ SubSeq(url, 1, Len(rule.prefix)) = rule.prefix
    /\ IF rule.path THEN Len(url) > Len(rule.prefix) ELSE Len(url) = Len(rule.prefix)

\* The matching rule with the most fixed segments; among equals the one
\* registered first.  The endpoint is "" when no rule matches.
Match(v, url) ==
    LET m    == url_map(v)
        hits == { i \in DOMAIN m : RuleMatches(m[i], url) }
    IN  IF hits = {} THEN [endpoint |-> "", filename |-> <<>>]
        ELSE LET best == CHOOSE i \in hits : \A j \in hits :
                             \/ Len(m[i].prefix) > Len(m[j].prefix)
                             \/ Len(m[i].prefix) = Len(m[j].prefix) /\ i <= j
             IN  [endpoint |-> m[best].endpoint,
                  filename |-> SubSeq(url, Len(m[best].prefix) + 1, Len(url))]

\* The view function registered for an endpoint, called with the URL's filename.
view_functions(endpoint, filename, ctx) ==
    CASE endpoint = "home"         -> home(ctx)
      [] endpoint = "static"       -> send_static_file(filename, ctx)
      [] endpoint = "serve_static" -> serve_static(filename, ctx)
      [] endpoint = "serve_style"  -> serve_style(filename, ctx)

\* dispatch_request: NotFound when no rule matches, else the view's result.
CallView(m, ctx) ==
    IF m.endpoint = "" THEN Raised("NotFound", ctx.cache)
    ELSE view_functions(m.endpoint, m.filename, ctx)

dispatch_request(url, ctx) == CallView(Match(ctx.variant, url), ctx)

\* Error handling that lets HTTP errors through to the server in debug mode.
handle_user_exception_trapping(r, ctx) ==
    IF r.raised = "NotFound" /\ ~ctx.debug
    THEN page_not_found([ctx EXCEPT !.cache = r.cache])
    ELSE r

\* handle_user_exception: a NotFound goes to the handler registered for 404;
\* no handler is registered for anything else, which is raised again.
handle_user_exception(r, ctx) ==
    IF r.raised = "NotFound" THEN page_not_found([ctx EXCEPT !.cache = r.cache]) ELSE r

\* full_dispatch_request
full_dispatch_request(url, ctx) == handle_user_exception(dispatch_request(url, ctx), ctx)

\* handle_exception: in debug mode the exception is raised again for the
\* server; otherwise the handler registered for 500 answers.
handle_exception(r, ctx) ==
    IF r.raised = "" \/ ctx.debug THEN r
    ELSE [internal_error([ctx EXCEPT !.cache = r.cache]) EXCEPT !.exc = r.raised]

\* wsgi_app: whatever escapes full_dispatch_request goes to handle_exception.
wsgi_app(url, ctx) == handle_exception(full_dispatch_request(url, ctx), ctx)

\* The server around the application: app.run(debug=True) wraps it in the
\* debugger, which answers an escaped exception with its traceback page.
DebuggedApplication(r) ==
    IF r.raised = "" THEN r
    ELSE [Returned(500, <<"traceback", r.raised>>, "debugger", r.cache)
              EXCEPT !.exc = r.raised]

Serve(url, ctx) == DebuggedApplication(wsgi_app(url, ctx))

-----------------------------------------------------------------------------
(* Requests *)

RECURSIVE SeqsUpTo(_)
SeqsUpTo(n) ==
    IF n = 0 THEN { <<>> }
    ELSE SeqsUpTo(n - 1) \cup { Append(q, s) : q \in SeqsUpTo(n - 1), s \in Segs }

\* Filenames requested below /static/: one to MaxSegs segments.
Filenames == SeqsUpTo(MaxSegs) \ { <<>> }

\* "/", "/static", "/nonexistent-page" and "/static/<filename>".
Urls ==
    { <<>>, <<"static">>, <<"nonexistent-page">> }
        \cup { <<"static">> \o f : f \in Filenames }

NoResponse == [url |-> <<"<none>">>, endpoint |-> "", filename |-> <<>>,
               status |-> 0, body |-> <<>>, by |-> "", exc |-> ""]

\* The request and its response, as the client sees them.
Exchange(url, m, r) ==
    [url |-> url, endpoint |-> m.endpoint, filename |-> m.filename,
     status |-> r.status, body |-> r.body, by |-> r.by, exc |-> r.exc]

Ctx == [variant |-> variant, debug |-> debug, files |-> files, cache |-> cache]

-----------------------------------------------------------------------------
(* The state machine *)

\* Environments under which requests are served.
ServedEnvs ==
    { [PORT |-> Unset, FLASK_DEBUG |-> Unset], [PORT |-> Str_8080, FLASK_DEBUG |-> Str_True] }

AllEnvs == [PORT : PortValues, FLASK_DEBUG : DebugValues]

\* api/index.py is deployed where FLASK_DEBUG is not set: it never calls
\* app.run, so its debug flag would come from the framework's own reading of
\* the variable.
InitWith(envs) ==
    /\ variant \in {"main", "index"}
    /\ env \in envs
    /\ variant = "index" => env.FLASK_DEBUG = Unset
    /\ proc = "stopped"
    /\ host = ""
    /\ port = 0
    /\ debug = FALSE
    /\ files \in { FixedFiles \cup present : present \in SUBSET Removable }
    /\ cache = {}
    /\ resp = NoResponse
    /\ fsChanged = FALSE

Init == InitWith(ServedEnvs)

\* python main.py: the __main__ block.  A PORT that is no integer ends the
\* process with ValueError; a port no socket can take ends it in app.run.
StartMain ==
    /\ variant = "main"
    /\ proc = "stopped"
    /\ LET p == port_of(env)
       IN  IF p.ok /\ p.value \in 0..MaxPort
           THEN /\ proc' = "running"
                /\ host' = "0.0.0.0"
                /\ port' = p.value
                /\ debug' = debug_mode(env)
           ELSE /\ proc' = "failed"
                /\ UNCHANGED <<host, port, debug>>
    /\ UNCHANGED <<variant, env, files, cache, resp, fsChanged>>

\* The hosting runtime imports api/index.py and calls app: no __main__ block
\* runs, nothing is bound by the application and debug keeps its default, off.
StartWsgi ==
    /\ variant = "index"
    /\ proc = "stopped"
    /\ proc' = "running"
    /\ UNCHANGED <<variant, env, host, port, debug, files, cache, resp, fsChanged>>

\* GET url: the application computes the response.
Request(url) ==
    /\ proc = "running"
    /\ resp = NoResponse
    /\ resp' = Exchange(url, Match(variant, url), Serve(url, Ctx))
    /\ cache' = Serve(url, Ctx).cache
    /\ UNCHANGED <<variant, env, proc, host, port, debug, files, fsChanged>>

\* The response goes out and the request-response cycle ends.
Deliver ==
    /\ resp # NoResponse
    /\ resp' = NoResponse
    /\ UNCHANGED <<variant, env, proc, host, port, debug, files, cache, fsChanged>>

\* A file is deleted while the process runs.
RemoveFile(p) ==
    /\ proc = "running"
    /\ resp = NoResponse
    /\ p \in files
    /\ files' = files \ { p }
    /\ fsChanged' = TRUE
    /\ UNCHANGED <<variant, env, proc, host, port, debug, cache, resp>>

\* A file is put back.
RestoreFile(p) ==
    /\ proc = "running"
    /\ resp = NoResponse
    /\ p \notin files
    /\ files' = files \cup { p }
    /\ fsChanged' = TRUE
    /\ UNCHANGED <<variant, env, proc, host, port, debug, cache, resp>>

Next ==
    \/ StartMain
    \/ StartWsgi
    \/ \E url \in Urls : Request(url)
    \/ Deliver
    \/ \E p \in Removable : RemoveFile(p)
    \/ \E p \in Removable : RestoreFile(p)

Spec == Init /\ [][Next]_vars

\* Startup alone, over every environment value.
InitStartup == InitWith(AllEnvs)

NextStartup == StartMain \/ StartWsgi

SpecStartup == InitStartup /\ [][NextStartup]_vars

-----------------------------------------------------------------------------
(* Vocabulary of the properties *)

Served == resp # NoResponse

PageNotFoundBodies == { <<"template", "404.html">>, <<"text", "Page Not Found">> }

InternalServerErrorBody == <<"text", "Internal Server Error">>

IsPrefix(a, b) == Len(a) <= Len(b) /\ SubSeq(b, 1, Len(a)) = a

\* The request went to a file-serving view.
StaticRequest == Served /\ resp.endpoint \in {"static", "serve_static", "serve_style"}

\* The directory the selected view serves from.
ServedDir == IF resp.endpoint = "serve_style" THEN style_dir ELSE static_dir

\* Where the requested filename leads on disk.
Target == OsResolve(ServedDir \o resp.filename)

\* The filename, normalised, climbs out of the directory it is joined to.
Climbs(filename) == normpath(filename) # <<>> /\ normpath(filename)[1] = ".."

\* The response a view's result becomes on its way through the application.
ServeView(endpoint, filename, ctx) ==
    DebuggedApplication(
        handle_exception(
            handle_user_exception(view_functions(endpoint, filename, ctx), ctx), ctx))

StatusAndBody(r) == <<r.status, r.body>>

CachedTemplatesOnDisk == \A t \in cache : TemplatePath(t) \in files

-----------------------------------------------------------------------------
(* C1 *)

\* C1: in both entry points a GET that matches no route is answered 404 with
\* the custom not-found page or the text "Page Not Found", whether or not the
\* 404.html template can be rendered; never 500, never an escaped exception.
C1_UnmatchedIs404 ==
    (Served /\ resp.endpoint = "") =>
        /\ resp.status = 404
        /\ resp.body \in PageNotFoundBodies
        /\ resp.exc = ""

-----------------------------------------------------------------------------
(* C2 *)

\* C2: a static request whose filename resolves outside the directory its
\* handler serves from is answered 404 or 403, never 200, and its body is
\* never a file from outside the assets root.
C2_TraversalIs404Or403 ==
    (StaticRequest /\ ~IsPrefix(ServedDir, Target)) =>
        /\ resp.status \in {403, 404}
        /\ \A p \in files : resp.body = FileBytes(p) => IsPrefix(static_dir, p)

-----------------------------------------------------------------------------
(* C3 *)

\* C3 as stated: whenever a handler fails with an unexpected exception the
\* client gets 500 with the fixed text "Internal Server Error", produced by
\* the server-error handler, and the process keeps running.
C3_FailureIsPlain500 ==
    (Served /\ resp.exc # "") =>
        /\ resp.status = 500
        /\ resp.body = InternalServerErrorBody
        /\ resp.by = "internal_error"
        /\ proc = "running"

\* C3 as amended: the failure ends at the request boundary with status 500
\* and the process keeps running; with debug off the server-error handler
\* answers with the fixed text, with debug on the debugger answers with the
\* traceback page.
C3_FailureIs500 ==
    (Served /\ resp.exc # "") =>
        /\ resp.status = 500
        /\ proc = "running"
        /\ ~debug => (resp.by = "internal_error" /\ resp.body = InternalServerErrorBody)
        /\ debug => (resp.by = "debugger" /\ resp.body = <<"traceback", resp.exc>>)

\* A template was missing, debug is off, and the server-error handler answered.
C3_Witness ==
    /\ Served
    /\ resp.exc = "TemplateNotFound"
    /\ ~debug
    /\ resp.by = "internal_error"

-----------------------------------------------------------------------------
(* C4 *)

\* The URL is /static/<path> and <path> leads to an existing file strictly
\* inside the assets root.
NamesAsset ==
    /\ Served
    /\ Len(resp.url) >= 2
    /\ resp.url[1] = "static"
    /\ OsResolve(static_dir \o Tail(resp.url)) \in files
    /\ IsPrefix(static_dir, OsResolve(static_dir \o Tail(resp.url)))
    /\ OsResolve(static_dir \o Tail(resp.url)) # static_dir

AssetServed ==
    /\ resp.status = 200
    /\ resp.body = FileBytes(static_dir \o Tail(resp.url))

\* C4 as stated: every relative path that names an existing file strictly
\* inside the assets root is answered 200 with that file's bytes.
C4_ExistingFileServed == NamesAsset => AssetServed

\* C4 as amended: so is every such path whose normalised form, taken relative
\* to the directory of the view that receives it, does not begin with "..";
\* every path without ".." segments is one.
C4_NonClimbingPathServed == (NamesAsset /\ ~Climbs(resp.filename)) => AssetServed

\* A file in the style subdirectory was served through a path with a
\* sub-path segment.
C4_Witness ==
    /\ Served
    /\ resp.url = <<"static", "style", "app.js">>
    /\ resp.status = 200

-----------------------------------------------------------------------------
(* C5 *)

\* C5: a static request whose path stays inside the assets root but names no
\* existing file gets what an unmatched route gets: 404 with the custom
\* not-found page or "Page Not Found"; never 200, never 500.
C5_AbsentFileIs404 ==
    (/\ StaticRequest
     /\ IsPrefix(static_dir, OsResolve(static_dir \o Tail(resp.url)))
     /\ OsResolve(static_dir \o Tail(resp.url)) # static_dir
     /\ OsResolve(static_dir \o Tail(resp.url)) \notin files) =>
        /\ resp.status = 404
        /\ resp.body \in PageNotFoundBodies

-----------------------------------------------------------------------------
(* C6 *)

\* C6 as stated: GET / is answered 200 with the homepage whenever index.html
\* is on disk; it fails only when the template is missing, and then with
\* status 500 and the plain-text body.
C6_HomeOkOrPlain500 ==
    (Served /\ resp.url = <<>>) =>
        /\ TemplatePath("index.html") \in files =>
               (resp.status = 200 /\ resp.body = <<"template", "index.html">>)
        /\ resp.status # 200 =>
               /\ TemplatePath("index.html") \notin files
               /\ resp.status = 500
               /\ resp.body = InternalServerErrorBody

\* C6 as amended: the failure is reported with status 500, with the
\* plain-text body when debug is off and the debugger's traceback page when
\* debug is on; never as a 404.
C6_HomeOkOr500 ==
    (Served /\ resp.url = <<>>) =>
        /\ TemplatePath("index.html") \in files =>
               (resp.status = 200 /\ resp.body = <<"template", "index.html">>)
        /\ resp.status # 200 =>
               /\ TemplatePath("index.html") \notin files
               /\ resp.status = 500
               /\ ~debug => resp.body = InternalServerErrorBody
               /\ debug => resp.by = "debugger"

\* GET / failed on a missing template with debug off.
C6_Witness ==
    /\ Served
    /\ resp.url = <<>>
    /\ resp.status = 500
    /\ ~debug

-----------------------------------------------------------------------------
(* C7 *)

-----------------------------------------------------------------------------
(* C8 *)

\* "true" in any letter case.
EnablesDebug(v) ==
    /\ v # Unset
    /\ Len(v) = 4
    /\ v[1] \in {"t", "T"}
    /\ v[2] \in {"r", "R"}
    /\ v[3] \in {"u", "U"}
    /\ v[4] \in {"e", "E"}

\* str(n) for n >= 0.
RECURSIVE str(_)
str(n) == IF n < 10 THEN << Digits[n + 1] >> ELSE Append(str(n \div 10), Digits[(n % 10) + 1])

\* A decimal string without its plus sign and leading zeros.
RECURSIVE Canonical(_)
Canonical(s) ==
    IF Len(s) > 1 /\ Head(s) \in {"+", "0"} THEN Canonical(Tail(s)) ELSE s

\* C8: the standalone entry point binds all interfaces, uses 5000 when PORT
\* is unset and otherwise the number PORT spells, and runs with debug on
\* exactly when FLASK_DEBUG is set to "true" (in any letter case).
C8_StartupConfig ==
    /\ (variant = "main" /\ proc = "running") =>
           /\ host = "0.0.0.0"
           /\ env.PORT = Unset => port = 5000
           /\ env.PORT # Unset => str(port) = Canonical(env.PORT)
           /\ debug <=> EnablesDebug(env.FLASK_DEBUG)
    /\ (variant = "main" /\ proc = "failed") => env.PORT # Unset

\* Started without PORT and with FLASK_DEBUG set to a value that does not
\* enable debug.
C8_Witness ==
    /\ variant = "main"
    /\ proc = "running"
    /\ env.PORT = Unset
    /\ port = 5000
    /\ env.FLASK_DEBUG = <<"1">>
    /\ ~debug

-----------------------------------------------------------------------------
(* C9 *)

\* The status the same request gets from this state under either debug value.
StatusSameForEveryDebug ==
    \A d \in BOOLEAN : Serve(resp.url, [Ctx EXCEPT !.debug = d]).status = resp.status

-----------------------------------------------------------------------------
(* C10 *)

\* A request for /static/style/<f> in api/index.py.
StyleRequest ==
    /\ Served
    /\ variant = "index"
    /\ Len(resp.url) >= 3
    /\ resp.url[1] = "static"
    /\ resp.url[2] = "style"

\* Each of the three overlapping routes would give the response that was given.
OverlapSame ==
    /\ StatusAndBody(ServeView("serve_style", Tail(Tail(resp.url)), Ctx)) = StatusAndBody(resp)
    /\ StatusAndBody(ServeView("serve_static", Tail(resp.url), Ctx)) = StatusAndBody(resp)
    /\ StatusAndBody(ServeView("static", Tail(resp.url), Ctx)) = StatusAndBody(resp)

\* C10 as stated: for every <f> the overlapping routes give the same status
\* and body.
C10_OverlapSame == StyleRequest => OverlapSame

\* C10 as amended: they do for every <f> whose normalised form does not
\* begin with ".."; one that does is refused by serve_style with 404.
C10_OverlapSameUnlessClimbing ==
    StyleRequest =>
        /\ ~Climbs(Tail(Tail(resp.url))) => OverlapSame
        /\ Climbs(Tail(Tail(resp.url))) => resp.status = 404

\* A dot segment that stays inside static/style: both routes serve the file.
C10_Witness ==
    /\ StyleRequest
    /\ resp.filename = <<".", "app.js">>
    /\ resp.status = 200

====
